---------------------------- MODULE Spec2Model ----------------------------
(***************************************************************************)
(* The target launch orchestrator of bevy_brp_mcp                          *)
(* (mcp/src/app_tools/support/launch_common.rs): launch_target and the     *)
(* functions it calls, as a state machine whose steps are the external     *)
(* calls (scan, cargo build, log file setup, detached spawn).              *)
(* The launched process is modelled by the port choice of its              *)
(* BrpExtrasPlugin (extras/src/plugin.rs).                                 *)
(* Two tools beside the launch have a section and a specification each:   *)
(* grab.selection (mcp/src/brp_tools/tools/grab_selection.rs) and the      *)
(* delayed screenshots of the app (extras/src/screenshot.rs).              *)
(*                                                                         *)
(* Option<T> is modelled as a sequence: None is <<>>, Some(x) is <<x>>.    *)
(* Result<T> is a record with a field ok.                                  *)
(***************************************************************************)
EXTENDS Integers, Sequences, FiniteSets, TLC

VARIABLES
    config,           \* the template LaunchConfig<T> handed to launch_target
    all_targets,      \* what scanning::find_all_targets_by_name returns
    cargo,            \* what the cargo build process will do: exit status, stdout, stderr
    pc,               \* position of launch_target
    discovery_error,  \* Option: the error find_and_validate_target returned
    target,           \* Option: the resolved BevyTarget
    build_state,      \* Option: BuildState returned by ensure_built
    builds,           \* number of cargo build invocations
    validation,       \* Option: what validate_port_range returned
    i,                \* loop index of launch_instances
    instance_config,  \* Option: the per-instance clone of config
    prepared,         \* Option: what prepare_launch_environment returned
    all_pids,         \* launch_instances: Vec<u32>
    all_log_files,    \* launch_instances: Vec<PathBuf>
    all_ports,        \* launch_instances: Vec<u16>
    log_files,        \* the log files on disk: sequence of [path, content, opened]
    processes,        \* the detached processes spawned: sequence of [pid, cmd, cwd, log]
    result,           \* what launch_target returned
    plugin,           \* the launched process: its environment, its plugin and the port it chose
    grab,             \* the grab.selection tool: its call, the files, what it read and returned
    build_cmd,        \* Option: the cargo build command ensure_built ran
    world             \* the app of the launched process: screenshot entities, frames run

vars == << config, all_targets, cargo, pc, discovery_error, target, build_state,
           builds, validation, i, instance_config, prepared, all_pids,
           all_log_files, all_ports, log_files, processes, result, plugin, grab,
           build_cmd, world >>

None == << >>
Some(x) == << x >>

-----------------------------------------------------------------------------
(* Program constants *)

\* u16::MAX (launch_common.rs:691, :721)
U16_MAX == 65535

\* brp_tools::constants::MAX_VALID_PORT (launch_common.rs:695)
MAX_VALID_PORT == 65534

\* u16::saturating_add
saturating_add(a, b) == IF a + b > U16_MAX THEN U16_MAX ELSE a + b

\* a subtraction that wraps below zero
saturating_sub_wrapping(a, b) == (a - b) % (U16_MAX + 1)

\* u16::saturating_sub
saturating_sub(a, b) == IF a < b THEN 0 ELSE a - b

Max(a, b) == IF a > b THEN a ELSE b
Min(a, b) == IF a < b THEN a ELSE b

-----------------------------------------------------------------------------
(* Bounds and input sets *)

MaxTargets == 2        \* candidates the scan returns
MaxInstances == 3      \* instances the model spawns in one launch
MaxLines == 2          \* lines of cargo output in the parse specification
PortMargin == 2        \* how far around u16::MAX the port specification looks

TargetName == "demo"
TargetTypes == {"app", "example"}
Profiles == {"debug"}
RelPaths == {"a", "b", "c"}
PathHints == {None} \cup {Some(p) : p \in RelPaths \cup {"zz"}}

\* A BevyTarget found by the scan (cargo_detector::BevyTarget)
BevyTarget(p) ==
    [name |-> TargetName, relative_path |-> p, package_name |-> "pkg",
     workspace_root |-> "ws", manifest_dir |-> "dir"]

RECURSIVE SeqsUpTo(_, _)
SeqsUpTo(S, n) ==
    IF n = 0 THEN {<< >>}
    ELSE LET shorter == SeqsUpTo(S, n - 1)
         IN  shorter \cup {Append(s, x) : s \in {t \in shorter : Len(t) = n - 1}, x \in S}

\* the candidates of one scan are different targets, each at its own relative path
ScanResults ==
    {ts \in SeqsUpTo({BevyTarget(p) : p \in RelPaths}, MaxTargets) :
        \A j, k \in 1..Len(ts) : j # k => ts[j].relative_path # ts[k].relative_path}

-----------------------------------------------------------------------------
(* Errors: a Report<Error> is modelled by its current context *)

Ok(v) == [ok |-> TRUE, value |-> v]
Err(e) == [ok |-> FALSE, error |-> e]

\* Error::Structured { result }
Structured(r) == [context |-> "Structured", result |-> r]

\* Error::tool_call_failed(message)
tool_call_failed(m) == [context |-> "ToolCall", message |-> m, details |-> None]

\* Error::tool_call_failed_with_details(message, details)
tool_call_failed_with_details(m, d) ==
    [context |-> "ToolCall", message |-> m, details |-> Some(d)]

\* Error::ProcessManagement(message)
ProcessManagement(m) == [context |-> "ProcessManagement", message |-> m]

\* errors::NoTargetsFoundError::new(target_name, target_type)
NoTargetsFoundError(name, type) ==
    [error |-> "NoTargetsFound", target_name |-> name, target_type |-> type]

\* errors::TargetNotFoundAtSpecifiedPath::new(name, type, searched_path, available_paths)
TargetNotFoundAtSpecifiedPath(name, type, searched, available) ==
    [error |-> "TargetNotFoundAtSpecifiedPath", target_name |-> name,
     target_type |-> type, searched_path |-> searched, available_paths |-> available]

\* errors::PathDisambiguationError::new(available_paths, target_name, target_type)
PathDisambiguationError(available, name, type) ==
    [error |-> "PathDisambiguationError", available_paths |-> available,
     target_name |-> name, target_type |-> type]

-----------------------------------------------------------------------------
(* Target resolution *)

\* all_targets.iter().map(|target| target.relative_path ...).collect()
RelativePaths(targets) == [k \in 1..Len(targets) |-> targets[k].relative_path]

\* scanning::find_required_target_with_path, given the candidates already
\* scanned: with a path hint, the candidate whose relative path equals the
\* hint; without one, the only candidate.  Anything else is an error.
find_required_target_with_path(path, targets) ==
    IF path # None
    THEN LET hits == {k \in 1..Len(targets) : targets[k].relative_path = path[1]}
         IN  IF hits = {}
             THEN Err([fmt |-> "target not found at the specified path"])
             ELSE Ok(targets[CHOOSE k \in hits : \A m \in hits : k <= m])
    ELSE IF Len(targets) = 1
         THEN Ok(targets[1])
         ELSE Err([fmt |-> "no unique target"])

\* create_error_details
create_error_details(cfg, duplicate_paths) ==
    [target_name |-> cfg.target_name, target_type |-> cfg.target_type,
     profile |-> cfg.profile, path |-> cfg.path, port |-> cfg.port,
     duplicate_paths |-> duplicate_paths]

\* duplicates are seen only from three candidates on
duplicate_paths_of_three(targets) ==
    IF Len(targets) > 2 THEN Some(RelativePaths(targets)) ELSE None

\* find_and_validate_target: the paths of the candidates when there are several
duplicate_paths_of(targets) ==
    IF Len(targets) > 1 THEN Some(RelativePaths(targets)) ELSE None

\* the arm for no candidate is missing
non_duplicate_error_no_zero_arm(cfg, targets, err) ==
    IF Len(targets) <= 1
    THEN Structured(TargetNotFoundAtSpecifiedPath(
             cfg.target_name, cfg.target_type, cfg.path, RelativePaths(targets)))
    ELSE tool_call_failed_with_details(err, create_error_details(cfg, None))

\* the searched path is left out of TargetNotFoundAtSpecifiedPath
non_duplicate_error_no_hint(cfg, targets, err) ==
    IF Len(targets) = 0
    THEN Structured(NoTargetsFoundError(cfg.target_name, cfg.target_type))
    ELSE IF Len(targets) = 1
    THEN Structured(TargetNotFoundAtSpecifiedPath(
             cfg.target_name, cfg.target_type, None, RelativePaths(targets)))
    ELSE tool_call_failed_with_details(err, create_error_details(cfg, None))

\* find_and_validate_target: the error for a failed lookup without duplicates
\* (match all_targets.len())
non_duplicate_error(cfg, targets, err) ==
    IF Len(targets) = 0
    THEN Structured(NoTargetsFoundError(cfg.target_name, cfg.target_type))
    ELSE IF Len(targets) = 1
    THEN Structured(TargetNotFoundAtSpecifiedPath(
             cfg.target_name, cfg.target_type, cfg.path, RelativePaths(targets)))
    ELSE tool_call_failed_with_details(err, create_error_details(cfg, None))

\* find_and_validate_target
find_and_validate_target(cfg, targets) ==
    LET duplicate_paths == duplicate_paths_of(targets)
        found == find_required_target_with_path(cfg.path, targets)
    IN  IF found.ok
        THEN Ok(found.value)
        ELSE IF duplicate_paths # None
        THEN Err(Structured(PathDisambiguationError(
                 duplicate_paths[1], cfg.target_name, cfg.target_type)))
        ELSE Err(non_duplicate_error(cfg, targets, found.error))

\* every error is converted, structured or not
handle_target_discovery_error_convert_all(error) ==
    tool_call_failed_with_details(
        [display |-> error],
        [error |-> [display |-> error], error_chain |-> [debug |-> error]])

\* handle_target_discovery_error
handle_target_discovery_error(error) ==
    IF error.context = "Structured"
    THEN error
    ELSE tool_call_failed_with_details(
             [display |-> error],
             [error |-> [display |-> error], error_chain |-> [debug |-> error]])

-----------------------------------------------------------------------------
(* The build: cargo build --message-format=json and its output *)

\* serde_json values that occur in a line of cargo output
JStr(s) == [t |-> "string", v |-> s]
JBool(b) == [t |-> "bool", v |-> b]
JNum(n) == [t |-> "number", v |-> n]

\* serde_json::Value::as_str
as_str(j) == IF j.t = "string" THEN Some(j.v) ELSE None

\* serde_json::Value::as_bool
as_bool(j) == IF j.t = "bool" THEN Some(j.v = "true") ELSE None

\* One line of stdout, by what serde_json::from_str makes of it: json says
\* whether it parses; target is json.get("target") (an object with an
\* optional name, any JSON value); fresh is json.get("fresh").
NotJsonLine == [json |-> FALSE, target |-> None, fresh |-> None]
JsonLine(t, f) == [json |-> TRUE, target |-> t, fresh |-> f]

TargetValues ==
    {None, Some([name |-> None]), Some([name |-> Some(JNum("7"))]),
     Some([name |-> Some(JStr("other"))]), Some([name |-> Some(JStr(TargetName))])}
FreshValues ==
    {None, Some(JBool("true")), Some(JBool("false")), Some(JStr("true"))}
Lines == {NotJsonLine} \cup {JsonLine(t, f) : t \in TargetValues, f \in FreshValues}

\* the condition of the if-let chain of parse_build_output for one line
LineNamesTarget(line, target_name) ==
    /\ line.json
    /\ line.target # None
    /\ line.target[1].name # None
    /\ as_str(line.target[1].name[1]) = Some(target_name)

\* a line without a boolean fresh field counts as fresh
FreshnessOf_default_fresh(line) ==
    LET fresh == IF line.fresh = None THEN None ELSE as_bool(line.fresh[1])
    IN  IF fresh = None THEN "Fresh"
        ELSE IF fresh[1] THEN "Fresh" ELSE "Rebuilt"

\* json.get("fresh").and_then(as_bool).map_or(Rebuilt, ...)
FreshnessOf(line) ==
    LET fresh == IF line.fresh = None THEN None ELSE as_bool(line.fresh[1])
    IN  IF fresh = None THEN "Rebuilt"
        ELSE IF fresh[1] THEN "Fresh" ELSE "Rebuilt"

\* the last event naming the target decides
RECURSIVE parse_build_output_last(_, _)
parse_build_output_last(stdout, target_name) ==
    IF stdout = << >> THEN "NotFound"
    ELSE LET rest == parse_build_output_last(Tail(stdout), target_name)
         IN  IF rest # "NotFound" THEN rest
             ELSE IF LineNamesTarget(Head(stdout), target_name)
             THEN FreshnessOf(Head(stdout))
             ELSE "NotFound"

\* parse_build_output: the loop over stdout_str.lines()
RECURSIVE parse_build_output(_, _)
parse_build_output(stdout, target_name) ==
    IF stdout = << >> THEN "NotFound"
    ELSE IF LineNamesTarget(Head(stdout), target_name)
    THEN FreshnessOf(Head(stdout))
    ELSE parse_build_output(Tail(stdout), target_name)

\* features_list.join(",")
RECURSIVE join(_)
join(list) ==
    IF list = << >> THEN ""
    ELSE IF Len(list) = 1 THEN list[1]
    ELSE list[1] \o "," \o join(Tail(list))

\* the flag is added for an empty list too
features_args_any_list(features) ==
    IF features # None THEN << "--features", join(features[1]) >> ELSE << >>

\* build_cargo_command, build_cargo_example_command: "--features <list>" when
\* a list is given and is not empty
features_args(features) ==
    IF features # None /\ features[1] # << >>
    THEN << "--features", join(features[1]) >>
    ELSE << >>

\* build_cargo_command, build_cargo_example_command: "--release" when the
\* profile is release
release_args(profile) == IF profile = "release" THEN << "--release" >> ELSE << >>

\* TargetType::add_cargo_args: the arguments that select the target
add_cargo_args(target_type, target_name) ==
    IF target_type = "app" THEN << "--bin", target_name >>
    ELSE << "--example", target_name >>

\* build_cargo_command
build_cargo_command(target_name, target_type, profile, manifest_dir, features) ==
    [program |-> "cargo",
     current_dir |-> manifest_dir,
     args |-> << "build" >> \o add_cargo_args(target_type, target_name)
              \o features_args(features) \o release_args(profile)
              \o << "--message-format=json" >>]

\* the exit status is not looked at
execute_build_command_any_status(run, target_name, target_type, profile, manifest_dir) ==
    IF run.status = "cannot_run"
    THEN Err(ProcessManagement(
             [fmt |-> "Failed to run cargo build", target_type |-> target_type,
              target_name |-> target_name, profile |-> profile,
              dir |-> manifest_dir, cause |-> Some("io error"), stderr |-> None]))
    ELSE Ok(run)

\* execute_build_command: cmd.output() and the exit status check
execute_build_command(run, target_name, target_type, profile, manifest_dir) ==
    IF run.status = "cannot_run"
    THEN Err(ProcessManagement(
             [fmt |-> "Failed to run cargo build", target_type |-> target_type,
              target_name |-> target_name, profile |-> profile,
              dir |-> manifest_dir, cause |-> Some("io error"), stderr |-> None]))
    ELSE IF run.status # "success"
    THEN Err(ProcessManagement(
             [fmt |-> "Cargo build failed", target_type |-> target_type,
              target_name |-> target_name, profile |-> profile,
              dir |-> manifest_dir, cause |-> None, stderr |-> Some(run.stderr)]))
    ELSE Ok(run)

\* run_cargo_build
run_cargo_build(run, target_name, target_type, profile, manifest_dir) ==
    LET output == execute_build_command(run, target_name, target_type, profile, manifest_dir)
    IN  IF ~output.ok THEN output
        ELSE Ok(parse_build_output(output.value.stdout, target_name))

\* LaunchConfigTrait::ensure_built, run_cargo_build: the command of the build
ensure_built_command(cfg, tgt) ==
    build_cargo_command(cfg.target_name, cfg.target_type, cfg.profile,
                        tgt.manifest_dir, cfg.features)

\* LaunchConfigTrait::ensure_built
ensure_built(cfg, tgt, run) ==
    run_cargo_build(run, cfg.target_name, cfg.target_type, cfg.profile, tgt.manifest_dir)

-----------------------------------------------------------------------------
(* Port range validation *)

\* a wrapping addition in place of the saturating one
highest_port_wrapping(base_port, count_u16) ==
    (base_port + saturating_sub(count_u16, 1)) % (U16_MAX + 1)

\* validate_port_range: base_port.saturating_add(count_u16.saturating_sub(1))
highest_port(base_port, count_u16) ==
    saturating_add(base_port, saturating_sub(count_u16, 1))

\* the range is checked before the size of the count
validate_port_range_range_first(base_port, instance_count) ==
    LET highest == highest_port(base_port, Min(instance_count, U16_MAX))
    IN  IF highest > MAX_VALID_PORT
        THEN [ok |-> FALSE,
              error |-> tool_call_failed(
                  [fmt |-> "Port range exceeds maximum valid port",
                   from |-> base_port, to |-> highest, maximum |-> MAX_VALID_PORT]),
              evaluated |-> << "saturating_add", "compare" >>]
        ELSE IF instance_count > U16_MAX
        THEN [ok |-> FALSE,
              error |-> tool_call_failed(
                  [fmt |-> "Instance count is too large",
                   instance_count |-> instance_count, maximum |-> U16_MAX]),
              evaluated |-> << "saturating_add", "compare", "try_from" >>]
        ELSE [ok |-> TRUE, error |-> None,
              evaluated |-> << "saturating_add", "compare", "try_from" >>]

\* validate_port_range.  The field evaluated lists the operations the call
\* evaluated, in order.
validate_port_range(base_port, instance_count) ==
    IF instance_count > U16_MAX
    THEN [ok |-> FALSE,
          error |-> tool_call_failed(
              [fmt |-> "Instance count is too large",
               instance_count |-> instance_count, maximum |-> U16_MAX]),
          evaluated |-> << "try_from" >>]
    ELSE LET count_u16 == instance_count
             highest == highest_port(base_port, count_u16)
         IN  IF highest > MAX_VALID_PORT
             THEN [ok |-> FALSE,
                   error |-> tool_call_failed(
                       [fmt |-> "Port range exceeds maximum valid port",
                        from |-> base_port, to |-> highest,
                        maximum |-> MAX_VALID_PORT]),
                   evaluated |-> << "try_from", "saturating_add", "compare" >>]
             ELSE [ok |-> TRUE, error |-> None,
                   evaluated |-> << "try_from", "saturating_add", "compare" >>]

-----------------------------------------------------------------------------
(* Per-instance launch: command, log file, detached process *)

\* u16 Display (Port::to_string): the decimal digits, most significant first
DigitChars == << "0", "1", "2", "3", "4", "5", "6", "7", "8", "9" >>

RECURSIVE to_string(_)
to_string(n) ==
    IF n < 10 THEN << DigitChars[n + 1] >>
    ELSE Append(to_string(n \div 10), DigitChars[(n % 10) + 1])

\* the name of the environment variable that carries the port
BRP_EXTRAS_PORT_ENV_VAR == "BRP_EXTRAS_PORT"

\* the command is left without the variable
set_brp_env_vars_unset(cmd, port) == cmd

\* set_brp_env_vars: cmd.env(BRP_EXTRAS_PORT_ENV_VAR, port.to_string()) when a
\* port is given
set_brp_env_vars(cmd, port) ==
    IF port # None
    THEN [cmd EXCEPT !.env = Some([name |-> BRP_EXTRAS_PORT_ENV_VAR,
                                   value |-> to_string(port[1])])]
    ELSE cmd

\* BevyTarget::get_binary_path(profile)
get_binary_path(tgt, profile) ==
    [workspace_root |-> tgt.workspace_root, profile |-> profile, name |-> tgt.name]

\* build_app_command
build_app_command(binary_path, port) ==
    set_brp_env_vars([program |-> binary_path, args |-> << >>, env |-> None], port)

\* build_cargo_example_command
build_cargo_example_command(example_name, profile, port, features) ==
    set_brp_env_vars(
        [program |-> "cargo",
         args |-> << "run", "--example", example_name >>
                  \o features_args(features) \o release_args(profile),
         env |-> None],
        port)

\* LaunchConfigTrait::build_command for LaunchConfig<App> and LaunchConfig<Example>
build_command(cfg, tgt) ==
    IF cfg.target_type = "app"
    THEN build_app_command(get_binary_path(tgt, cfg.profile), Some(cfg.port))
    ELSE build_cargo_example_command(cfg.target_name, cfg.profile, Some(cfg.port),
                                     cfg.features)

\* LaunchConfigTrait::extra_log_info
extra_log_info(cfg, tgt) ==
    IF cfg.target_type = "app" THEN None
    ELSE Some([fmt |-> "Package: ", package_name |-> tgt.package_name])

\* logging::create_log_file: the path of the log file, named from the target
\* kind, name, profile and port
create_log_file(name, target_type, profile, port) ==
    [target_type |-> target_type, name |-> name, profile |-> profile, port |-> port]

\* The outcomes of the three file operations of setup_launch_logging
LogOutcomes == {"ok", "create_failed", "append_failed", "open_failed"}

\* the file is opened for redirection before the extra line is appended
setup_launch_logging_open_first(name, target_type, profile, port, extra, io) ==
    LET path == create_log_file(name, target_type, profile, port)
    IN  IF io = "create_failed"
        THEN [ok |-> FALSE, file |-> None,
              error |-> tool_call_failed([fmt |-> "Failed to create log file"])]
        ELSE IF io = "open_failed"
        THEN [ok |-> FALSE,
              file |-> Some([path |-> path, content |-> None, opened |-> FALSE]),
              error |-> tool_call_failed([fmt |-> "Failed to open log file for redirect"])]
        ELSE IF extra # None /\ io = "append_failed"
        THEN [ok |-> FALSE,
              file |-> Some([path |-> path, content |-> None, opened |-> TRUE]),
              error |-> tool_call_failed([fmt |-> "Failed to append to log file"])]
        ELSE [ok |-> TRUE,
              file |-> Some([path |-> path, content |-> extra, opened |-> TRUE]),
              value |-> path]

\* setup_launch_logging under the file system outcome io: the result, and the
\* file it leaves on disk (None when the creation failed)
setup_launch_logging(name, target_type, profile, port, extra, io) ==
    LET path == create_log_file(name, target_type, profile, port)
    IN  IF io = "create_failed"
        THEN [ok |-> FALSE, file |-> None,
              error |-> tool_call_failed([fmt |-> "Failed to create log file"])]
        ELSE IF extra # None /\ io = "append_failed"
        THEN [ok |-> FALSE,
              file |-> Some([path |-> path, content |-> None, opened |-> FALSE]),
              error |-> tool_call_failed([fmt |-> "Failed to append to log file"])]
        ELSE IF io = "open_failed"
        THEN [ok |-> FALSE,
              file |-> Some([path |-> path, content |-> extra, opened |-> FALSE]),
              error |-> tool_call_failed([fmt |-> "Failed to open log file for redirect"])]
        ELSE [ok |-> TRUE,
              file |-> Some([path |-> path, content |-> extra, opened |-> TRUE]),
              value |-> path]

\* prepare_launch_environment
prepare_launch_environment(cfg, tgt, io) ==
    LET cmd == build_command(cfg, tgt)
        logging == setup_launch_logging(cfg.target_name, cfg.target_type, cfg.profile,
                                        cfg.port, extra_log_info(cfg, tgt), io)
    IN  IF ~logging.ok THEN logging
        ELSE [ok |-> TRUE, file |-> logging.file,
              value |-> [cmd |-> cmd, manifest_dir |-> tgt.manifest_dir,
                         log_file_path |-> logging.value]]

\* every instance gets the base port
InstancePort_same(base_port, k) == base_port

\* the ports go down from the base port
InstancePort_descending(base_port, k) ==
    saturating_sub(base_port, IF k <= U16_MAX THEN k ELSE U16_MAX)

\* The port of instance k in launch_instances
InstancePort(base_port, k) ==
    saturating_add(base_port, IF k <= U16_MAX THEN k ELSE U16_MAX)

-----------------------------------------------------------------------------
(* Result aggregation *)

\* pids.zip(log_files).zip(ports): as many instances as the shortest list
Instances(pids, logs, ports) ==
    LET n == CHOOSE m \in {Len(pids), Len(logs), Len(ports)} :
                 m <= Len(pids) /\ m <= Len(logs) /\ m <= Len(ports)
    IN  [k \in 1..n |-> [pid |-> pids[k], log_file |-> logs[k], port |-> ports[k]]]

\* the range ends at the second port
format_port_range_second(ports) ==
    IF Len(ports) = 1
    THEN to_string(ports[1])
    ELSE to_string(ports[1]) \o << "-" >> \o to_string(ports[2])

\* build_launch_result: the port_range of the message, a single port or
\* "{first}-{last}"
format_port_range(ports) ==
    IF Len(ports) = 1
    THEN to_string(ports[1])
    ELSE to_string(ports[1]) \o << "-" >> \o to_string(ports[Len(ports)])

\* the package name is reported for every kind of target
result_package_name_always(target_type, tgt) == Some(tgt.package_name)

\* build_launch_result: package_name, for an example only
result_package_name(target_type, tgt) ==
    IF target_type = "example" THEN Some(tgt.package_name) ELSE None

\* build_launch_result: binary_path, for an application only
result_binary_path(target_type, tgt, profile) ==
    IF target_type = "app" THEN Some(get_binary_path(tgt, profile)) ELSE None

\* build_launch_result; all_ports[0] panics on an empty list
build_launch_result(pids, logs, ports, cfg, tgt) ==
    IF Len(ports) = 0
    THEN [panic |-> TRUE]
    ELSE [panic |-> FALSE,
          value |->
            [target_name |-> Some(cfg.target_name),
             instances |-> Instances(pids, logs, ports),
             profile |-> Some(cfg.profile),
             workspace |-> Some(tgt.workspace_root),
             package_name |-> result_package_name(cfg.target_type, tgt),
             binary_path |-> result_binary_path(cfg.target_type, tgt, cfg.profile),
             duplicate_paths |-> None,
             message_template |->
               Some([instance_count |-> Len(ports),
                     target_name |-> cfg.target_name,
                     port_range |-> format_port_range(ports)])]]

-----------------------------------------------------------------------------
(* launch_target, step by step *)

NoResult == [status |-> "none"]
Returned(r) ==
    IF r.ok THEN [status |-> "ok", value |-> r.value]
    ELSE [status |-> "err", error |-> r.error]

\* launch_target: find_and_validate_target(config, search_paths)
FindAndValidateTarget ==
    /\ pc = "start"
    /\ LET found == find_and_validate_target(config, all_targets)
       IN  IF found.ok
           THEN /\ target' = Some(found.value)
                /\ pc' = "resolved"
                /\ UNCHANGED discovery_error
           ELSE /\ discovery_error' = Some(found.error)
                /\ pc' = "resolve_failed"
                /\ UNCHANGED target
    /\ UNCHANGED << world, build_cmd, grab, plugin, config, all_targets, cargo, build_state, builds, validation, i,
                    instance_config, prepared, all_pids, all_log_files, all_ports,
                    log_files, processes, result >>

\* launch_target: .map_err(handle_target_discovery_error)?
HandleTargetDiscoveryError ==
    /\ pc = "resolve_failed"
    /\ result' = Returned(Err(handle_target_discovery_error(discovery_error[1])))
    /\ pc' = "error"
    /\ UNCHANGED << world, build_cmd, grab, plugin, config, all_targets, cargo, discovery_error, target, build_state,
                    builds, validation, i, instance_config, prepared, all_pids,
                    all_log_files, all_ports, log_files, processes >>

\* the launch goes on after a build that failed
EnsureBuilt_ignore_failure ==
    /\ pc = "resolved"
    /\ builds' = builds + 1
    /\ build_cmd' = Some(ensure_built_command(config, target[1]))
    /\ LET built == ensure_built(config, target[1], cargo)
       IN  build_state' = IF built.ok THEN Some(built.value) ELSE build_state
    /\ pc' = "built"
    /\ UNCHANGED << world, grab, plugin, config, all_targets, cargo, discovery_error, target, validation, i,
                    instance_config, prepared, all_pids, all_log_files, all_ports,
                    log_files, processes, result >>

\* a build that does not name the target is an error
EnsureBuilt_not_found_fatal ==
    /\ pc = "resolved"
    /\ builds' = builds + 1
    /\ build_cmd' = Some(ensure_built_command(config, target[1]))
    /\ LET built == ensure_built(config, target[1], cargo)
       IN  IF built.ok /\ built.value # "NotFound"
           THEN /\ build_state' = Some(built.value)
                /\ pc' = "built"
                /\ UNCHANGED result
           ELSE /\ result' = Returned(Err(ProcessManagement(
                        [fmt |-> "Target not found in build output"])))
                /\ pc' = "error"
                /\ UNCHANGED build_state
    /\ UNCHANGED << world, grab, plugin, config, all_targets, cargo, discovery_error, target,
                    validation, i, instance_config, prepared, all_pids, all_log_files,
                    all_ports, log_files, processes >>

\* launch_target: config.ensure_built(&target)?
EnsureBuilt ==
    /\ pc = "resolved"
    /\ builds' = builds + 1
    /\ build_cmd' = Some(ensure_built_command(config, target[1]))
    /\ LET built == ensure_built(config, target[1], cargo)
       IN  IF built.ok
           THEN /\ build_state' = Some(built.value)
                /\ pc' = "built"
                /\ UNCHANGED result
           ELSE /\ result' = Returned(built)
                /\ pc' = "error"
                /\ UNCHANGED build_state
    /\ UNCHANGED << world, grab, plugin, config, all_targets, cargo, discovery_error, target, validation, i,
                    instance_config, prepared, all_pids, all_log_files, all_ports,
                    log_files, processes >>

\* the outcome of the port range check is dropped
ValidatePortRange_unchecked ==
    /\ pc = "built"
    /\ validation' = Some(validate_port_range(config.port, config.instance_count))
    /\ pc' = "spawning"
    /\ UNCHANGED << world, build_cmd, grab, plugin, config, all_targets, cargo, discovery_error, target, build_state,
                    builds, i, instance_config, prepared, all_pids, all_log_files,
                    all_ports, log_files, processes, result >>

\* launch_target: validate_port_range(base_port, instance_count)?
ValidatePortRange ==
    /\ pc = "built"
    /\ LET checked == validate_port_range(config.port, config.instance_count)
       IN  /\ validation' = Some(checked)
           /\ IF checked.ok
              THEN pc' = "spawning" /\ UNCHANGED result
              ELSE pc' = "error" /\ result' = Returned(Err(checked.error))
    /\ UNCHANGED << world, build_cmd, grab, plugin, config, all_targets, cargo, discovery_error, target, build_state,
                    builds, i, instance_config, prepared, all_pids, all_log_files,
                    all_ports, log_files, processes >>

\* the port is set on the template itself, not on a clone
PrepareLaunchEnvironment_in_place ==
    /\ pc = "spawning"
    /\ i < config.instance_count
    /\ i < MaxInstances
    /\ \E io \in LogOutcomes :
         LET port == InstancePort(config.port, i)
             clone == [config EXCEPT !.port = port]
             env == prepare_launch_environment(clone, target[1], io)
         IN  /\ io = "append_failed" => extra_log_info(clone, target[1]) # None
             /\ config' = clone
             /\ instance_config' = Some(clone)
             /\ log_files' = IF env.file = None THEN log_files
                             ELSE Append(log_files, env.file[1])
             /\ IF env.ok
                THEN /\ prepared' = Some(env.value)
                     /\ pc' = "prepared"
                     /\ UNCHANGED result
                ELSE /\ result' = Returned(Err(env.error))
                     /\ pc' = "error"
                     /\ UNCHANGED prepared
    /\ UNCHANGED << world, build_cmd, grab, plugin, all_targets, cargo, discovery_error, target, build_state,
                    builds, validation, i, all_pids, all_log_files, all_ports,
                    processes >>

\* launch_instances, loop body: the clone with the instance's port and
\* prepare_launch_environment(&instance_config, target)?
PrepareLaunchEnvironment ==
    /\ pc = "spawning"
    /\ i < config.instance_count
    /\ i < MaxInstances
    /\ \E io \in LogOutcomes :
         LET port == InstancePort(config.port, i)
             clone == [config EXCEPT !.port = port]
             env == prepare_launch_environment(clone, target[1], io)
         IN  /\ io = "append_failed" => extra_log_info(clone, target[1]) # None
             /\ instance_config' = Some(clone)
             /\ log_files' = IF env.file = None THEN log_files
                             ELSE Append(log_files, env.file[1])
             /\ IF env.ok
                THEN /\ prepared' = Some(env.value)
                     /\ pc' = "prepared"
                     /\ UNCHANGED result
                ELSE /\ result' = Returned(Err(env.error))
                     /\ pc' = "error"
                     /\ UNCHANGED prepared
    /\ UNCHANGED << world, build_cmd, grab, plugin, config, all_targets, cargo, discovery_error, target, build_state,
                    builds, validation, i, all_pids, all_log_files, all_ports,
                    processes >>

\* a failed spawn is skipped and the loop goes on
LaunchDetachedProcess_skip_failed ==
    /\ pc = "prepared"
    /\ \E spawned \in BOOLEAN :
         IF spawned
         THEN LET pid == 1000 + Len(processes)
              IN  /\ processes' = Append(processes,
                        [pid |-> pid, cmd |-> prepared[1].cmd,
                         cwd |-> prepared[1].manifest_dir,
                         log |-> prepared[1].log_file_path])
                  /\ all_pids' = Append(all_pids, pid)
                  /\ all_log_files' = Append(all_log_files, prepared[1].log_file_path)
                  /\ all_ports' = Append(all_ports, instance_config[1].port)
         ELSE UNCHANGED << processes, all_pids, all_log_files, all_ports >>
    /\ i' = i + 1
    /\ pc' = "spawning"
    /\ UNCHANGED << world, build_cmd, grab, plugin, config, all_targets, cargo, discovery_error, target, build_state,
                    builds, validation, instance_config, prepared, log_files, result >>

\* a failed spawn takes the instances spawned before it down with it
LaunchDetachedProcess_rollback ==
    /\ pc = "prepared"
    /\ \E spawned \in BOOLEAN :
         IF spawned
         THEN LET pid == 1000 + Len(processes)
              IN  /\ processes' = Append(processes,
                        [pid |-> pid, cmd |-> prepared[1].cmd,
                         cwd |-> prepared[1].manifest_dir,
                         log |-> prepared[1].log_file_path])
                  /\ all_pids' = Append(all_pids, pid)
                  /\ all_log_files' = Append(all_log_files, prepared[1].log_file_path)
                  /\ all_ports' = Append(all_ports, instance_config[1].port)
                  /\ i' = i + 1
                  /\ pc' = "spawning"
                  /\ UNCHANGED result
         ELSE /\ result' = Returned(Err(ProcessManagement(
                      [fmt |-> "Failed to launch process",
                       target_name |-> config.target_name])))
              /\ pc' = "error"
              /\ processes' = << >>
              /\ UNCHANGED << all_pids, all_log_files, all_ports, i >>
    /\ UNCHANGED << world, build_cmd, grab, plugin, config, all_targets, cargo, discovery_error, target, build_state,
                    builds, validation, instance_config, prepared, log_files >>

\* launch_instances, loop body: process::launch_detached_process(...)? and the
\* three pushes
LaunchDetachedProcess ==
    /\ pc = "prepared"
    /\ \E spawned \in BOOLEAN :
         IF spawned
         THEN LET pid == 1000 + Len(processes)
              IN  /\ processes' = Append(processes,
                        [pid |-> pid, cmd |-> prepared[1].cmd,
                         cwd |-> prepared[1].manifest_dir,
                         log |-> prepared[1].log_file_path])
                  /\ all_pids' = Append(all_pids, pid)
                  /\ all_log_files' = Append(all_log_files, prepared[1].log_file_path)
                  /\ all_ports' = Append(all_ports, instance_config[1].port)
                  /\ i' = i + 1
                  /\ pc' = "spawning"
                  /\ UNCHANGED result
         ELSE /\ result' = Returned(Err(ProcessManagement(
                      [fmt |-> "Failed to launch process",
                       target_name |-> config.target_name])))
              /\ pc' = "error"
              /\ UNCHANGED << processes, all_pids, all_log_files, all_ports, i >>
    /\ UNCHANGED << world, build_cmd, grab, plugin, config, all_targets, cargo, discovery_error, target, build_state,
                    builds, validation, instance_config, prepared, log_files >>

\* launch_instances returns its three lists; launch_target: Ok(build_launch_result(...))
BuildLaunchResult ==
    /\ pc = "spawning"
    /\ i >= config.instance_count
    /\ LET built == build_launch_result(all_pids, all_log_files, all_ports,
                                        config, target[1])
       IN  IF built.panic
           THEN pc' = "panicked" /\ UNCHANGED result
           ELSE pc' = "done" /\ result' = Returned(Ok(built.value))
    /\ UNCHANGED << world, build_cmd, grab, plugin, config, all_targets, cargo, discovery_error, target, build_state,
                    builds, validation, i, instance_config, prepared, all_pids,
                    all_log_files, all_ports, log_files, processes >>

-----------------------------------------------------------------------------
(* The launched process: BrpExtrasPlugin (extras/src/plugin.rs) *)

\* crate::DEFAULT_REMOTE_PORT
DEFAULT_REMOTE_PORT == 15702

\* the plugin's process before it exists: no environment, no plugin
NoPlugin == [environment |-> None, port |-> None, launched_on |-> None,
             effective |-> None]

\* std::env::var(name).ok(): the value of the variable, None when it is not
\* set.  The environment holds at most one variable, as [name, value].
std_env_var(environment, name) ==
    IF environment # None /\ environment[1].name = name
    THEN Some(environment[1].value)
    ELSE None

\* the digits of u16::from_str, most significant first, with checked
\* multiplication and addition: None on a character that is no digit or on
\* overflow
RECURSIVE parse_digits(_, _)
parse_digits(digits, acc) ==
    IF digits = << >> THEN Some(acc)
    ELSE IF ~(\E d \in 0..9 : DigitChars[d + 1] = Head(digits)) THEN None
    ELSE LET d == CHOOSE d \in 0..9 : DigitChars[d + 1] = Head(digits)
             next == acc * 10 + d
         IN  IF next > U16_MAX THEN None ELSE parse_digits(Tail(digits), next)

\* s.parse::<u16>().ok(): an optional leading "+", then at least one digit
parse_u16(s) ==
    IF s = << >> THEN None
    ELSE LET digits == IF Head(s) = "+" THEN Tail(s) ELSE s
         IN  IF digits = << >> THEN None ELSE parse_digits(digits, 0)

\* the port given to with_port wins over the environment
get_effective_port_with_port_first(self_port, environment) ==
    LET var == std_env_var(environment, "BRP_EXTRAS_PORT")
        env_port == IF var = None THEN None ELSE parse_u16(var[1])
        final_port == IF self_port # None THEN self_port[1]
                      ELSE IF env_port # None THEN env_port[1]
                      ELSE DEFAULT_REMOTE_PORT
    IN  [port |-> final_port, source |-> [fmt |-> "with_port first", from |-> None]]

\* BrpExtrasPlugin::get_effective_port: (final_port, source_description)
get_effective_port(self_port, environment) ==
    LET var == std_env_var(environment, "BRP_EXTRAS_PORT")
        env_port == IF var = None THEN None ELSE parse_u16(var[1])
        final_port == IF env_port # None THEN env_port[1]
                      ELSE IF self_port # None THEN self_port[1]
                      ELSE DEFAULT_REMOTE_PORT
        source_description ==
            IF env_port # None /\ self_port # None
            THEN [fmt |-> "environment override from with_port", from |-> self_port]
            ELSE IF env_port # None
            THEN [fmt |-> "environment override from default",
                  from |-> Some(DEFAULT_REMOTE_PORT)]
            ELSE IF self_port # None
            THEN [fmt |-> "with_port", from |-> None]
            ELSE [fmt |-> "default", from |-> None]
    IN  [port |-> final_port, source |-> source_description]

\* Plugin::build: the plugin of the launched process works out its port
GetEffectivePort ==
    /\ pc = "child"
    /\ plugin.effective = None
    /\ plugin' = [plugin EXCEPT !.effective =
                      Some(get_effective_port(plugin.port, plugin.environment))]
    /\ UNCHANGED << world, build_cmd, grab, config, all_targets, cargo, pc, discovery_error, target,
                    build_state, builds, validation, i, instance_config, prepared,
                    all_pids, all_log_files, all_ports, log_files, processes, result >>

-----------------------------------------------------------------------------
(* The grab.selection tool (mcp/src/brp_tools/tools/grab_selection.rs) *)

DEFAULT_SELECTION_PATH == "target/ai-selection/selection.json"

\* the tool before it is called
NoGrab == [params |-> None, env |-> None, files |-> None, reads |-> << >>,
           result |-> None]

\* resolve_path: the argument, else a non-empty BRP_GRAB_SELECTION_PATH, else
\* the default path
resolve_path(arg, env) ==
    IF arg # None THEN arg[1]
    ELSE IF env # None /\ env[1] # "" THEN env[1]
    ELSE DEFAULT_SELECTION_PATH

\* GrabSelectionResult::new(path, enabled, selection)
GrabSelectionResult(path, enabled, selection) ==
    [path |-> path, enabled |-> enabled, selection |-> selection,
     message_template |-> "Grab selection fetched from {path}"]

\* a missing file is an empty selection whatever fail_if_absent says
handle_impl_absent_allowed(params, env, files) ==
    LET path == resolve_path(params.path, env)
        file == files[path]
    IN  IF file.state = "absent"
        THEN [ok |-> TRUE, reads |-> << >>,
              value |-> GrabSelectionResult(path, FALSE, None)]
        ELSE IF file.state = "unreadable"
        THEN [ok |-> FALSE, reads |-> << path >>,
              error |-> [kind |-> "io_failed", path |-> Some(path)]]
        ELSE IF file.state = "not_json"
        THEN [ok |-> FALSE, reads |-> << path >>,
              error |-> [kind |-> "failed_to", path |-> None]]
        ELSE IF params.require_enabled /\ ~file.enabled
        THEN [ok |-> FALSE, reads |-> << path >>,
              error |-> [kind |-> "invalid", path |-> None]]
        ELSE [ok |-> TRUE, reads |-> << path >>,
              value |-> GrabSelectionResult(path, file.enabled, file.selection)]

\* handle_impl of grab.selection: the result, and the files it read
handle_impl(params, env, files) ==
    LET path == resolve_path(params.path, env)
        file == files[path]
    IN  IF file.state = "absent"
        THEN IF params.fail_if_absent
             THEN [ok |-> FALSE, reads |-> << >>,
                   error |-> [kind |-> "missing", path |-> Some(path)]]
             ELSE [ok |-> TRUE, reads |-> << >>,
                   value |-> GrabSelectionResult(path, FALSE, None)]
        ELSE IF file.state = "unreadable"
        THEN [ok |-> FALSE, reads |-> << path >>,
              error |-> [kind |-> "io_failed", path |-> Some(path)]]
        ELSE IF file.state = "not_json"
        THEN [ok |-> FALSE, reads |-> << path >>,
              error |-> [kind |-> "failed_to", path |-> None]]
        ELSE IF params.require_enabled /\ ~file.enabled
        THEN [ok |-> FALSE, reads |-> << path >>,
              error |-> [kind |-> "invalid", path |-> None]]
        ELSE [ok |-> TRUE, reads |-> << path >>,
              value |-> GrabSelectionResult(path, file.enabled, file.selection)]

\* GrabSelection: one call of the tool
HandleImpl ==
    /\ pc = "grab"
    /\ grab.result = None
    /\ LET out == handle_impl(grab.params[1], grab.env, grab.files[1])
       IN  grab' = [grab EXCEPT !.reads = out.reads,
                                !.result = Some(Returned(out))]
    /\ UNCHANGED << world, build_cmd, plugin, config, all_targets, cargo, pc, discovery_error, target,
                    build_state, builds, validation, i, instance_config, prepared,
                    all_pids, all_log_files, all_ports, log_files, processes, result >>

-----------------------------------------------------------------------------
(* Delayed screenshots of the launched process (extras/src/screenshot.rs) *)

DEFAULT_DELAY_FRAMES == 2

\* the world of the app before any screenshot request: no entity, no run of
\* the system, no response
NoWorld == [entities |-> << >>, frames |-> 0, response |-> None]

\* handler: the entity spawned for a request with delay_frames.  delay and
\* age, captures and captured_at record how the entity was created, how many
\* runs of process_pending_screenshots it has been through, how many times a
\* Screenshot component was put on it, and in which of its runs.
spawn_screenshot(path, delay_frames) ==
    IF delay_frames = 0
    THEN [pending |-> None, screenshot |-> TRUE, delay |-> None, age |-> 0,
          captures |-> 1, captured_at |-> Some(0)]
    ELSE [pending |-> Some([path |-> path, frames_remaining |-> delay_frames]),
          screenshot |-> FALSE, delay |-> Some(delay_frames), age |-> 0,
          captures |-> 0, captured_at |-> None]

\* the capture comes when one frame remains
process_pending_one_early(e) ==
    IF e.pending = None THEN [e EXCEPT !.age = @ + 1]
    ELSE IF e.pending[1].frames_remaining <= 1
    THEN [e EXCEPT !.pending = None, !.screenshot = TRUE, !.age = @ + 1,
                   !.captures = @ + 1, !.captured_at = Some(e.age + 1)]
    ELSE [e EXCEPT !.pending = Some([e.pending[1] EXCEPT !.frames_remaining = @ - 1]),
                   !.age = @ + 1]

\* process_pending_screenshots, the body of the loop for one entity; an
\* entity without PendingScreenshot is not in the query
process_pending(e) ==
    IF e.pending = None THEN [e EXCEPT !.age = @ + 1]
    ELSE IF e.pending[1].frames_remaining = 0
    THEN [e EXCEPT !.pending = None, !.screenshot = TRUE, !.age = @ + 1,
                   !.captures = @ + 1, !.captured_at = Some(e.age + 1)]
    ELSE [e EXCEPT !.pending = Some([e.pending[1] EXCEPT !.frames_remaining = @ - 1]),
                   !.age = @ + 1]

\* the longest delay asked for, the most requests and the most frames
MaxDelay == 3
MaxEntities == 2
MaxFrames == 6

\* handler: a screenshot request with its parameters, in an app with or
\* without a window
ScreenshotHandler ==
    /\ pc = "app"
    /\ Len(world.entities) < MaxEntities
    /\ \E path \in {None, Some("shot.png")}, delay \in {None} \cup {Some(d) : d \in 0..MaxDelay},
          window_exists \in BOOLEAN :
         LET delay_frames == IF delay = None THEN DEFAULT_DELAY_FRAMES ELSE delay[1]
         IN  IF path = None
             THEN world' = [world EXCEPT !.response =
                               Some([ok |-> FALSE, message |-> "Missing 'path' parameter"])]
             ELSE IF ~window_exists
             THEN world' = [world EXCEPT !.response =
                               Some([ok |-> FALSE, message |-> "No windows found"])]
             ELSE world' = [world EXCEPT
                               !.entities = Append(@, spawn_screenshot(path[1], delay_frames)),
                               !.response = Some([ok |-> TRUE, message |-> "success"])]
    /\ UNCHANGED << build_cmd, grab, plugin, config, all_targets, cargo, pc,
                    discovery_error, target, build_state, builds, validation, i,
                    instance_config, prepared, all_pids, all_log_files, all_ports,
                    log_files, processes, result >>

\* one run of the system process_pending_screenshots, over every entity
ProcessPendingScreenshots ==
    /\ pc = "app"
    /\ world.frames < MaxFrames
    /\ world' = [world EXCEPT
                    !.entities = [k \in 1..Len(@) |-> process_pending(@[k])],
                    !.frames = @ + 1]
    /\ UNCHANGED << build_cmd, grab, plugin, config, all_targets, cargo, pc,
                    discovery_error, target, build_state, builds, validation, i,
                    instance_config, prepared, all_pids, all_log_files, all_ports,
                    log_files, processes, result >>

-----------------------------------------------------------------------------
(* Specifications *)

BasePorts == {15702, MAX_VALID_PORT - 1, MAX_VALID_PORT}
InstanceCounts == 0..MaxInstances \cup {U16_MAX + 1}

LaunchConfig(type, profile, path, port, count) ==
    [target_name |-> TargetName, target_type |-> type, profile |-> profile,
     path |-> path, port |-> port, instance_count |-> count, features |-> None]

Configs ==
    {LaunchConfig(type, profile, path, port, count) :
        type \in TargetTypes, profile \in Profiles, path \in PathHints,
        port \in BasePorts, count \in InstanceCounts}

CargoRun(status, stdout) == [status |-> status, stdout |-> stdout, stderr |-> "error[E0425]"]

\* the builds of the launch specification: failures, and one-line outputs
CargoRuns ==
    {CargoRun("cannot_run", << >>), CargoRun("failed", << >>), CargoRun("success", << >>)}
    \cup {CargoRun("success", << JsonLine(Some([name |-> Some(JStr(TargetName))]), f) >>) :
              f \in {None, Some(JBool("true")), Some(JBool("false"))}}

\* everything launch_target has not touched yet
Untouched ==
    /\ discovery_error = None
    /\ target = None
    /\ build_state = None
    /\ builds = 0
    /\ build_cmd = None
    /\ validation = None
    /\ i = 0
    /\ instance_config = None
    /\ prepared = None
    /\ all_pids = << >>
    /\ all_log_files = << >>
    /\ all_ports = << >>
    /\ log_files = << >>
    /\ processes = << >>
    /\ result = NoResult

Init ==
    /\ config \in Configs
    /\ all_targets \in ScanResults
    /\ cargo \in CargoRuns
    /\ pc = "start"
    /\ Untouched
    /\ plugin = NoPlugin
    /\ grab = NoGrab
    /\ world = NoWorld

Next ==
    \/ FindAndValidateTarget
    \/ HandleTargetDiscoveryError
    \/ EnsureBuilt
    \/ ValidatePortRange
    \/ PrepareLaunchEnvironment
    \/ LaunchDetachedProcess
    \/ BuildLaunchResult

Spec == Init /\ [][Next]_vars

-----------------------------------------------------------------------------
(* Specifications of single stages, over wider inputs *)

\* launch_target after a successful resolution of the only candidate
Resolved ==
    /\ all_targets = << BevyTarget("a") >>
    /\ target = Some(BevyTarget("a"))
    /\ discovery_error = None

\* launch_target before the spawn loop has run
NotSpawned ==
    /\ i = 0
    /\ instance_config = None
    /\ prepared = None
    /\ all_pids = << >>
    /\ all_log_files = << >>
    /\ all_ports = << >>
    /\ log_files = << >>
    /\ processes = << >>
    /\ result = NoResult

PortInputs == {0, 1, 1024, 15702} \cup ((U16_MAX - PortMargin)..U16_MAX)
CountInputs == (0..MaxInstances) \cup ((U16_MAX - PortMargin)..(U16_MAX + PortMargin))

\* the port range check and the spawn loop, from the state after a build
InitPort ==
    /\ config \in {LaunchConfig(type, "debug", None, port, count) :
                       type \in TargetTypes, port \in PortInputs, count \in CountInputs}
    /\ cargo = CargoRun("success", << >>)
    /\ Resolved
    /\ build_state = Some("NotFound")
    /\ builds = 1
    /\ build_cmd = Some(ensure_built_command(config, BevyTarget("a")))
    /\ validation = None
    /\ NotSpawned
    /\ pc = "built"
    /\ plugin = NoPlugin
    /\ grab = NoGrab
    /\ world = NoWorld

NextPort ==
    \/ ValidatePortRange
    \/ PrepareLaunchEnvironment
    \/ LaunchDetachedProcess
    \/ BuildLaunchResult

SpecPort == InitPort /\ [][NextPort]_vars

\* the build step, over every output of at most MaxLines lines
InitParse ==
    /\ config \in {LaunchConfig(type, "debug", None, 15702, 1) : type \in TargetTypes}
    /\ cargo \in {CargoRun("success", out) : out \in SeqsUpTo(Lines, MaxLines)}
    /\ Resolved
    /\ build_state = None
    /\ builds = 0
    /\ build_cmd = None
    /\ validation = None
    /\ NotSpawned
    /\ pc = "resolved"
    /\ plugin = NoPlugin
    /\ grab = NoGrab
    /\ world = NoWorld

NextParse == EnsureBuilt

SpecParse == InitParse /\ [][NextParse]_vars

\* errors other than Error::Structured that a lookup could hand to
\* handle_target_discovery_error
OtherErrors(cfg) ==
    {tool_call_failed_with_details(m, create_error_details(cfg, None)) :
         m \in {[fmt |-> "target not found at the specified path"],
                [fmt |-> "no unique target"]}}
    \cup {tool_call_failed([fmt |-> "scan failed"]),
          ProcessManagement([fmt |-> "scan failed"])}

\* target resolution and the handling of its error
InitDiscovery ==
    /\ config \in Configs
    /\ all_targets \in ScanResults
    /\ cargo = CargoRun("success", << >>)
    /\ target = None
    /\ build_state = None
    /\ builds = 0
    /\ build_cmd = None
    /\ validation = None
    /\ NotSpawned
    /\ \/ pc = "start" /\ discovery_error = None
       \/ pc = "resolve_failed" /\ discovery_error \in {Some(e) : e \in OtherErrors(config)}
    /\ plugin = NoPlugin
    /\ grab = NoGrab
    /\ world = NoWorld

NextDiscovery ==
    \/ FindAndValidateTarget
    \/ HandleTargetDiscoveryError

SpecDiscovery == InitDiscovery /\ [][NextDiscovery]_vars

\* the longest text of the environment variable
MaxEnvLen == 5

EnvChars == {"0", "6", "+", "-", "x"}
EnvNames == {"BRP_EXTRAS_PORT", "BRP_PORT"}
EnvTexts ==
    SeqsUpTo(EnvChars, MaxEnvLen) \cup {to_string(p) : p \in PortInputs \cup {U16_MAX + 1}}

\* BrpExtrasPlugin::new() and BrpExtrasPlugin::with_port(port)
WithPorts == {None, Some(8080), Some(U16_MAX)}

\* the processes the plugin can find itself in: any environment, or the
\* environment of a command built by the orchestrator for a port
Plugins ==
    {[environment |-> e, port |-> w, launched_on |-> None, effective |-> None] :
        e \in {None} \cup {Some([name |-> n, value |-> t]) :
                              n \in EnvNames, t \in EnvTexts},
        w \in WithPorts}
    \cup
    {[environment |-> build_command(LaunchConfig(type, "debug", None, p, 1),
                                    BevyTarget("a")).env,
      port |-> w, launched_on |-> Some(p), effective |-> None] :
        type \in TargetTypes, p \in {q \in PortInputs : q <= MAX_VALID_PORT},
        w \in WithPorts}

\* the start of a launched process
InitPlugin ==
    /\ plugin \in Plugins
    /\ grab = NoGrab
    /\ world = NoWorld
    /\ config = LaunchConfig("app", "debug", None, DEFAULT_REMOTE_PORT, 1)
    /\ cargo = CargoRun("success", << >>)
    /\ Resolved
    /\ build_state = None
    /\ builds = 0
    /\ build_cmd = None
    /\ validation = None
    /\ NotSpawned
    /\ pc = "child"

NextPlugin == GetEffectivePort

SpecPlugin == InitPlugin /\ [][NextPlugin]_vars

\* the files of the grab.selection tool: absent, unreadable, not a selection
\* summary, or a summary
SelectionPaths == {"p", "e", DEFAULT_SELECTION_PATH}
SelectionData == [entity |-> 7, hierarchy |-> << >>]
FileStates ==
    {[state |-> s, enabled |-> FALSE, selection |-> None] :
        s \in {"absent", "unreadable", "not_json"}}
    \cup {[state |-> "summary", enabled |-> en, selection |-> sel] :
             en \in BOOLEAN, sel \in {None, Some(SelectionData)}}

GrabSelectionParams ==
    [path : {None, Some("p")}, require_enabled : BOOLEAN, fail_if_absent : BOOLEAN]

\* one call of grab.selection, over every file system and environment
InitGrab ==
    /\ world = NoWorld
    /\ grab \in {[params |-> Some(p), env |-> e, files |-> Some(f),
                  reads |-> << >>, result |-> None] :
                    p \in GrabSelectionParams, e \in {None, Some(""), Some("e")},
                    f \in [SelectionPaths -> FileStates]}
    /\ plugin = NoPlugin
    /\ config = LaunchConfig("app", "debug", None, DEFAULT_REMOTE_PORT, 1)
    /\ cargo = CargoRun("success", << >>)
    /\ Resolved
    /\ build_state = None
    /\ builds = 0
    /\ build_cmd = None
    /\ validation = None
    /\ NotSpawned
    /\ pc = "grab"

NextGrab == HandleImpl

SpecGrab == InitGrab /\ [][NextGrab]_vars

\* the longest feature list
MaxFeatures == 2

FeatureNames == {"f", "g"}
FeatureLists == {None} \cup {Some(l) : l \in SeqsUpTo(FeatureNames, MaxFeatures)}
CommandProfiles == {"debug", "release", "Release"}

\* the build and the launch of one instance, over every feature list and
\* profile
InitCommand ==
    /\ config \in {[LaunchConfig(type, profile, None, DEFAULT_REMOTE_PORT, 1)
                       EXCEPT !.features = f] :
                     type \in TargetTypes, profile \in CommandProfiles,
                     f \in FeatureLists}
    /\ cargo = CargoRun("success", << >>)
    /\ Resolved
    /\ build_state = None
    /\ builds = 0
    /\ build_cmd = None
    /\ validation = None
    /\ NotSpawned
    /\ pc = "resolved"
    /\ plugin = NoPlugin
    /\ grab = NoGrab
    /\ world = NoWorld

NextCommand ==
    \/ EnsureBuilt
    \/ ValidatePortRange
    \/ PrepareLaunchEnvironment
    \/ LaunchDetachedProcess
    \/ BuildLaunchResult

SpecCommand == InitCommand /\ [][NextCommand]_vars

\* the app of a launched process: screenshot requests and frames
InitScreenshot ==
    /\ world = NoWorld
    /\ plugin = NoPlugin
    /\ grab = NoGrab
    /\ config = LaunchConfig("app", "debug", None, DEFAULT_REMOTE_PORT, 1)
    /\ cargo = CargoRun("success", << >>)
    /\ Resolved
    /\ build_state = None
    /\ builds = 0
    /\ build_cmd = None
    /\ validation = None
    /\ NotSpawned
    /\ pc = "app"

NextScreenshot ==
    \/ ScreenshotHandler
    \/ ProcessPendingScreenshots

SpecScreenshot == InitScreenshot /\ [][NextScreenshot]_vars

-----------------------------------------------------------------------------
(* Claims *)

\* the ports base, base+1, ..., base+n-1
AscendingFrom(base, n) == [k \in 1..n |-> base + k - 1]

\* C1: a LaunchResult returned by launch_target has exactly instance_count
\* instances, one per spawned process, and a launch that stopped at a failed
\* step returned an error, never a LaunchResult.
C1_AllInstancesOrError ==
    /\ result.status = "ok" =>
          /\ pc = "done"
          /\ Len(result.value.instances) = config.instance_count
          /\ Len(processes) = config.instance_count
    /\ pc = "error" => result.status = "err"
    /\ (pc \in {"done", "error", "panicked"} /\ Len(processes) < config.instance_count)
          => result.status # "ok"

\* C1 witness: three instances were launched and reported
C1_Witness ==
    /\ result.status = "ok"
    /\ config.instance_count = 3
    /\ Len(result.value.instances) = 3

\* C2 as stated: whenever instance_count <= 65535 and
\* base_port + instance_count - 1 <= MAX_VALID_PORT, the port range check
\* succeeds and a launch whose spawns all succeed yields the ports
\* base_port, base_port+1, ..., base_port+instance_count-1, pairwise distinct.
C2_Original ==
    LET n == config.instance_count
        b == config.port
    IN  (n <= U16_MAX /\ b + n - 1 <= MAX_VALID_PORT) =>
          /\ validation # None => validation[1].ok
          /\ (pc = "spawning" /\ i >= n) =>
                /\ all_ports = AscendingFrom(b, n)
                /\ \A j, k \in 1..Len(all_ports) : j # k => all_ports[j] # all_ports[k]

\* C2 amended: the same, for base_port + max(instance_count, 1) - 1 <= MAX_VALID_PORT
\* (an instance_count of 0 is checked like an instance_count of 1).
C2_ContiguousPorts ==
    LET n == config.instance_count
        b == config.port
    IN  (n <= U16_MAX /\ b + Max(n, 1) - 1 <= MAX_VALID_PORT) =>
          /\ validation # None => validation[1].ok
          /\ (pc = "spawning" /\ i >= n) =>
                /\ all_ports = AscendingFrom(b, n)
                /\ \A j, k \in 1..Len(all_ports) : j # k => all_ports[j] # all_ports[k]

\* C2 witness: the loop has ended with three ports allocated from 15702
C2_Witness ==
    /\ pc = "spawning"
    /\ config.instance_count = 3
    /\ i = 3
    /\ validation # None
    /\ all_ports = << 15702, 15703, 15704 >>

\* the range-exceeded error of validate_port_range, citing both bounds
IsRangeExceeded(checked, base, n) ==
    /\ ~checked.ok
    /\ checked.error.context = "ToolCall"
    /\ checked.error.message.fmt = "Port range exceeds maximum valid port"
    /\ checked.error.message.from = base
    /\ checked.error.message.to = Min(base + n - 1, U16_MAX)
    /\ checked.error.message.maximum = MAX_VALID_PORT

\* C3 as stated: whenever base_port + instance_count - 1 > MAX_VALID_PORT, the
\* port range check fails with the range-exceeded error citing the computed
\* upper bound and the ceiling.
C3_Original ==
    LET n == config.instance_count
        b == config.port
    IN  (validation # None /\ b + n - 1 > MAX_VALID_PORT) =>
            IsRangeExceeded(validation[1], b, n)

\* C3 amended: the same, for instance_count <= 65535.
C3_RangeExceeded ==
    LET n == config.instance_count
        b == config.port
    IN  (validation # None /\ n <= U16_MAX /\ b + n - 1 > MAX_VALID_PORT) =>
            /\ IsRangeExceeded(validation[1], b, n)
            /\ pc = "error"
            /\ result = [status |-> "err", error |-> validation[1].error]

\* C3 witness: two instances from the last port of the u16 range
C3_Witness ==
    /\ validation # None
    /\ config.port = U16_MAX
    /\ config.instance_count = 2
    /\ ~validation[1].ok

\* C4: whenever instance_count > 65535, the port range check fails with the
\* "too large" error, having evaluated the conversion only: no saturating add
\* and no comparison with the ceiling, whatever base_port is.
C4_TooLargeFirst ==
    (validation # None /\ config.instance_count > U16_MAX) =>
        /\ ~validation[1].ok
        /\ validation[1].error.context = "ToolCall"
        /\ validation[1].error.message.fmt = "Instance count is too large"
        /\ validation[1].error.message.instance_count = config.instance_count
        /\ validation[1].evaluated = << "try_from" >>
        /\ pc = "error"

\* C4 witness: 65536 instances from port 0, which is within the ceiling
C4_Witness ==
    /\ validation # None
    /\ config.instance_count = U16_MAX + 1
    /\ config.port = 0
    /\ pc = "error"

\* the duplicate paths an error carries
ErrorDuplicatePaths(e) ==
    IF e.context = "Structured" /\ e.result.error = "PathDisambiguationError"
    THEN Some(e.result.available_paths)
    ELSE None

\* C5: the duplicate paths of a launch outcome are populated exactly when
\* more than one target matched, in the LaunchResult of a successful launch
\* as in the error of a failed resolution, and then list the candidates.
C5_DuplicatePathsIffSeveral ==
    /\ result.status = "ok" =>
          result.value.duplicate_paths =
              (IF Len(all_targets) > 1 THEN Some(RelativePaths(all_targets)) ELSE None)
    /\ (result.status = "err" /\ discovery_error # None) =>
          ErrorDuplicatePaths(result.error) =
              (IF Len(all_targets) > 1 THEN Some(RelativePaths(all_targets)) ELSE None)

\* C6: when the scan finds no target, the lookup fails with NoTargetsFound
\* carrying the target name and type, with or without a path hint.
C6_NoTargetsFound ==
    (Len(all_targets) = 0 /\ pc # "start") =>
        discovery_error = Some([context |-> "Structured",
                                result |-> [error |-> "NoTargetsFound",
                                            target_name |-> config.target_name,
                                            target_type |-> config.target_type]])

\* C6 witness: no target, a path hint, and the lookup has failed
C6_Witness ==
    /\ Len(all_targets) = 0
    /\ config.path = Some("a")
    /\ discovery_error # None

\* C7: with exactly one candidate, a path hint that does not match it makes
\* the lookup fail, and a failed lookup yields TargetNotFoundAtSpecifiedPath
\* listing that candidate's path and carrying the hint as the searched path.
C7_TargetNotFoundAtSpecifiedPath ==
    (Len(all_targets) = 1 /\ pc # "start") =>
        /\ (config.path # None /\ config.path # Some(all_targets[1].relative_path))
              => discovery_error # None
        /\ discovery_error # None =>
              discovery_error[1] =
                  [context |-> "Structured",
                   result |-> [error |-> "TargetNotFoundAtSpecifiedPath",
                               target_name |-> config.target_name,
                               target_type |-> config.target_type,
                               searched_path |-> config.path,
                               available_paths |-> << all_targets[1].relative_path >>]]

\* C7 witness: the only candidate is at b, the hint is a, the lookup has failed
C7_Witness ==
    /\ Len(all_targets) = 1
    /\ all_targets[1].relative_path = "b"
    /\ config.path = Some("a")
    /\ discovery_error # None

\* C8: with two or more candidates and no path hint, or one that matches
\* none of them, the lookup fails with PathDisambiguationError listing the
\* relative path of every candidate.
C8_PathDisambiguation ==
    (/\ Len(all_targets) >= 2
     /\ pc # "start"
     /\ \/ config.path = None
        \/ \A k \in 1..Len(all_targets) : Some(all_targets[k].relative_path) # config.path)
    => discovery_error =
           Some([context |-> "Structured",
                 result |-> [error |-> "PathDisambiguationError",
                             available_paths |->
                                 [k \in 1..Len(all_targets) |-> all_targets[k].relative_path],
                             target_name |-> config.target_name,
                             target_type |-> config.target_type]])

\* C8 witness: candidates at a and b, a hint matching neither
C8_Witness ==
    /\ Len(all_targets) = 2
    /\ all_targets[1].relative_path = "a"
    /\ all_targets[2].relative_path = "b"
    /\ config.path = Some("zz")
    /\ discovery_error # None

\* the lines of the build output that are events naming the target
EventsNaming(name) ==
    {k \in 1..Len(cargo.stdout) :
        /\ cargo.stdout[k].json
        /\ cargo.stdout[k].target = Some([name |-> Some([t |-> "string", v |-> name])])}

\* C9: after a successful build the build state is NotFound when no line is
\* an event naming the target; otherwise it is decided by the first such
\* event: Fresh when its fresh field is the boolean true, Rebuilt when it is
\* false, absent or not a boolean.
C9_BuildState ==
    build_state # None =>
        LET events == EventsNaming(config.target_name)
        IN  IF events = {}
            THEN build_state[1] = "NotFound"
            ELSE LET first == CHOOSE k \in events : \A m \in events : k <= m
                 IN  IF cargo.stdout[first].fresh = Some([t |-> "bool", v |-> "true"])
                     THEN build_state[1] = "Fresh"
                     ELSE build_state[1] = "Rebuilt"

\* C9 witness: a line of another target, then the target's event without a
\* fresh field: Rebuilt
C9_Witness ==
    /\ build_state = Some("Rebuilt")
    /\ Len(cargo.stdout) = 2
    /\ 1 \notin EventsNaming(config.target_name)
    /\ 2 \in EventsNaming(config.target_name)
    /\ cargo.stdout[2].fresh = None

\* C10: launch_target returns a structured resolution error exactly as
\* find_and_validate_target produced it; an error that is not structured is
\* returned as a ToolCall error with details.
C10_StructuredPreserved ==
    (pc = "error" /\ discovery_error # None) =>
        /\ result.status = "err"
        /\ IF discovery_error[1].context = "Structured"
           THEN result.error = discovery_error[1]
           ELSE /\ result.error.context = "ToolCall"
                /\ result.error.details # None

\* C10 witness: a PathDisambiguationError has been returned by launch_target
C10_Witness ==
    /\ pc = "error"
    /\ result.status = "err"
    /\ result.error.context = "Structured"
    /\ result.error.result.error = "PathDisambiguationError"
    /\ Len(all_targets) = 2

\* the diagnostic context of a launch: create_error_details without the
\* duplicate paths
ContextFields == {"target_name", "target_type", "profile", "path", "port"}

\* the error carries the diagnostic context of cfg in its details
CarriesContext(error, cfg) ==
    /\ error.context = "ToolCall"
    /\ error.details # None
    /\ ContextFields \subseteq DOMAIN error.details[1]
    /\ \A f \in ContextFields : error.details[1][f] = cfg[f]

\* C11: every error returned by launch_target that is not a structured
\* resolution error (build failure, port range failure, log setup or spawn
\* failure) carries the full diagnostic context: target name, target kind,
\* profile, path and port.
C11_FullContext ==
    (result.status = "err" /\ result.error.context # "Structured") =>
        CarriesContext(result.error, config)

\* the error of a build that failed, as launch_target returns it
BuildError == result.error.message

\* the build of this call has run and did not succeed
BuildFailed == builds = 1 /\ cargo.status # "success"

\* what follows a failed build: the error names the target kind, name,
\* profile and directory, and nothing after the build has happened
BuildFailureStops ==
    /\ pc = "error"
    /\ result.status = "err"
    /\ result.error.context = "ProcessManagement"
    /\ BuildError.target_type = config.target_type
    /\ BuildError.target_name = config.target_name
    /\ BuildError.profile = config.profile
    /\ BuildError.dir = target[1].manifest_dir
    /\ build_state = None
    /\ validation = None
    /\ log_files = << >>
    /\ processes = << >>

\* C12 as stated: a build that exits non-zero or cannot be run gives an error
\* carrying the captured stderr and the target kind, name, profile and
\* directory; launch_target returns it with no port validation, no log file
\* and no process.
C12_Original ==
    BuildFailed =>
        /\ BuildFailureStops
        /\ BuildError.stderr = Some(cargo.stderr)

\* C12: a build that exits non-zero gives an error carrying the captured
\* stderr, a build that cannot be run gives an error carrying the cause in
\* its place; both carry the target kind, name, profile and directory, and
\* launch_target returns the error with no port validation, no log file and
\* no process.
C12_BuildFailure ==
    BuildFailed =>
        /\ BuildFailureStops
        /\ IF cargo.status = "cannot_run"
           THEN BuildError.stderr = None /\ BuildError.cause # None
           ELSE BuildError.stderr = Some(cargo.stderr)

\* C12 witness: launch_target has returned the error of a build that exited
\* non-zero, with its stderr
C12_Witness ==
    /\ pc = "error"
    /\ builds = 1
    /\ cargo.status = "failed"
    /\ result.status = "err"
    /\ result.error.message.fmt = "Cargo build failed"
    /\ result.error.message.stderr = Some("error[E0425]")

\* the port range check of this call has failed
PortCheckFailed == validation # None /\ ~validation[1].ok

\* C13: when the port range check fails (the instance count does not fit in
\* 16 bits, or the range exceeds the ceiling) launch_target returns that
\* error, and no process has been spawned and no log file created in the
\* call.
C13_NothingSpawned ==
    PortCheckFailed =>
        /\ pc = "error"
        /\ result.status = "err"
        /\ result.error = validation[1].error
        /\ result.error.message.fmt \in {"Instance count is too large",
                                         "Port range exceeds maximum valid port"}
        /\ processes = << >>
        /\ log_files = << >>
        /\ all_pids = << >>
        /\ i = 0

\* C13 witness: three instances from port 65534 have been refused after a
\* successful build
C13_Witness ==
    /\ pc = "error"
    /\ build_state # None
    /\ config.port = MAX_VALID_PORT
    /\ config.instance_count = 3
    /\ PortCheckFailed
    /\ result.status = "err"
    /\ result.error.message.fmt = "Port range exceeds maximum valid port"
    /\ processes = << >>

\* the processes spawned so far stay as they are, in order
ProcessesKept ==
    /\ Len(processes) <= Len(processes')
    /\ SubSeq(processes', 1, Len(processes)) = processes

\* C14: when the log setup or the spawn of instance k fails, launch_instances
\* returns the error at once: nothing more is attempted after the error, no
\* instance beyond k has been prepared, and the k processes spawned for
\* instances 0..k-1 are left as they are (no kill, no rollback).
C14_AbortNoRollback ==
    [][/\ pc # "error"
       /\ ProcessesKept
       /\ (pc \in {"spawning", "prepared"} /\ pc' = "error") =>
              /\ result'.status = "err"
              /\ processes' = processes
              /\ all_pids' = all_pids
              /\ i' = i
              /\ Len(processes') = i
              /\ Len(log_files') <= i + 1]_vars

\* C14 witness: the spawn of the third of three instances has failed and the
\* first two processes are still there
C14_Witness ==
    /\ pc = "error"
    /\ config.instance_count = 3
    /\ i = 2
    /\ Len(processes) = 2
    /\ Len(log_files) = 3
    /\ result.status = "err"
    /\ result.error.context = "ProcessManagement"
    /\ result.error.message.fmt = "Failed to launch process"

\* the stages of launch_target, numbered in the order of its body
StageOf(p) ==
    CASE p = "start" -> 0
      [] p \in {"resolve_failed", "resolved"} -> 1
      [] p = "built" -> 2
      [] p \in {"spawning", "prepared"} -> 3
      [] p = "done" -> 4
      [] OTHER -> 5

DigitValue(c) == CHOOSE d \in 0..9 : DigitChars[d + 1] = c

\* the number a string of decimal digits denotes
RECURSIVE DecimalValue(_)
DecimalValue(s) ==
    IF s = << >> THEN 0
    ELSE 10 * DecimalValue(SubSeq(s, 1, Len(s) - 1)) + DigitValue(s[Len(s)])

\* s is the decimal string of n: digits only, no leading zero, value n
IsDecimalOf(s, n) ==
    /\ s # << >>
    /\ \A k \in 1..Len(s) : \E d \in 1..10 : DigitChars[d] = s[k]
    /\ Len(s) > 1 => s[1] # "0"
    /\ DecimalValue(s) = n

\* C16: for every instance of a launch, counted from 0, the port in the
\* child's environment variable (a decimal string), the port in the name of
\* its log file and the port of its LaunchedInstance are all base_port plus
\* the instance's index, for application and example targets alike.
C16_SamePortEverywhere ==
    /\ \A k \in 1..Len(log_files) : log_files[k].path.port = config.port + (k - 1)
    /\ \A k \in 1..Len(processes) :
         /\ processes[k].cmd.env # None
         /\ processes[k].cmd.env[1].name = BRP_EXTRAS_PORT_ENV_VAR
         /\ IsDecimalOf(processes[k].cmd.env[1].value, config.port + (k - 1))
         /\ processes[k].log.port = config.port + (k - 1)
         /\ processes[k].log = log_files[k].path
    /\ result.status = "ok" =>
         /\ Len(result.value.instances) = config.instance_count
         /\ \A k \in 1..Len(result.value.instances) :
              /\ result.value.instances[k].port = config.port + (k - 1)
              /\ result.value.instances[k].log_file = processes[k].log
              /\ result.value.instances[k].pid = processes[k].pid

\* C16 witness: the third instance of an example launched from 15702 has
\* 15704 in its environment, in its log file name and in the result
C16_Witness ==
    /\ config.target_type = "example"
    /\ config.port = 15702
    /\ result.status = "ok"
    /\ Len(processes) = 3
    /\ processes[3].cmd.env = Some([name |-> "BRP_EXTRAS_PORT",
                                    value |-> << "1", "5", "7", "0", "4" >>])
    /\ processes[3].log.port = 15704
    /\ result.value.instances[3].port = 15704

\* the summary message of the LaunchResult
Message == result.value.message_template[1]

\* the text is "first-last" in decimal
IsRangeOf(text, first, last) ==
    \E d \in 1..Len(text) :
        /\ text[d] = "-"
        /\ IsDecimalOf(SubSeq(text, 1, d - 1), first)
        /\ IsDecimalOf(SubSeq(text, d + 1, Len(text)), last)

\* C17: the summary message of a LaunchResult states the number of instances
\* and the ports: the single port for one instance, otherwise "base-highest"
\* with the first and the last allocated port; three instances from 15702 are
\* on 15702, 15703 and 15704 and the message has "15702-15704".
C17_SummaryMessage ==
    result.status = "ok" =>
        LET n == config.instance_count
            instances == result.value.instances
        IN  /\ result.value.message_template # None
            /\ Message.instance_count = n
            /\ Message.target_name = config.target_name
            /\ Len(instances) = n
            /\ IF n = 1
               THEN IsDecimalOf(Message.port_range, config.port)
               ELSE IsRangeOf(Message.port_range, instances[1].port, instances[n].port)
            /\ (config.port = 15702 /\ n = 3) =>
                   /\ [k \in 1..3 |-> instances[k].port] = << 15702, 15703, 15704 >>
                   /\ Message.port_range =
                          << "1", "5", "7", "0", "2", "-", "1", "5", "7", "0", "4" >>

\* C17 witness: three instances launched from 15702, message "15702-15704"
C17_Witness ==
    /\ result.status = "ok"
    /\ config.port = 15702
    /\ config.instance_count = 3
    /\ Message.instance_count = 3
    /\ Message.port_range = << "1", "5", "7", "0", "2", "-", "1", "5", "7", "0", "4" >>

\* C18: in every LaunchResult binary_path is present exactly when the target
\* is an application and package_name exactly when it is an example; never
\* both, never neither.
C18_KindSpecificFields ==
    result.status = "ok" =>
        /\ result.value.binary_path # None <=> config.target_type = "app"
        /\ result.value.package_name # None <=> config.target_type = "example"
        /\ ~(result.value.binary_path # None /\ result.value.package_name # None)
        /\ result.value.binary_path # None \/ result.value.package_name # None

\* C18 witness: the LaunchResult of an application has a binary path and no
\* package name
C18_Witness ==
    /\ result.status = "ok"
    /\ config.target_type = "app"
    /\ result.value.binary_path = Some(get_binary_path(target[1], config.profile))
    /\ result.value.package_name = None

\* C19: a multi-instance launch never modifies the template LaunchConfig:
\* its port stays base_port and its other fields stay as they were, through
\* success and error; only the clone made for an instance has its port
\* rewritten, to the port of that instance.
C19_TemplateUnchanged ==
    [][/\ config' = config
       /\ instance_config' # instance_config =>
              /\ instance_config' = Some([config EXCEPT !.port = config.port + i])
              /\ pc = "spawning"]_vars

\* C19 witness: after three instances from 15702 the last clone has port 15704
\* and the template still has 15702
C19_Witness ==
    /\ pc = "done"
    /\ config.instance_count = 3
    /\ config.port = 15702
    /\ all_ports = << 15702, 15703, 15704 >>
    /\ instance_config = Some([config EXCEPT !.port = 15704])

\* the text of the BRP_EXTRAS_PORT variable in the plugin's environment
PortText ==
    IF plugin.environment # None /\ plugin.environment[1].name = "BRP_EXTRAS_PORT"
    THEN Some(plugin.environment[1].value)
    ELSE None

\* the text without its optional leading "+"
Unsigned(s) == IF s # << >> /\ s[1] = "+" THEN SubSeq(s, 2, Len(s)) ELSE s

\* the text is a number of 16 bits: digits only, at least one, value at
\* most 65535
IsPortText(s) ==
    /\ Unsigned(s) # << >>
    /\ \A k \in 1..Len(Unsigned(s)) : \E d \in 1..10 : DigitChars[d] = Unsigned(s)[k]
    /\ DecimalValue(Unsigned(s)) <= 65535

SelectionFile == resolve_path(grab.params[1].path, grab.env)
SelectionFileAbsent == grab.files[1][SelectionFile].state = "absent"

\* C21: grab selection, when the selection file does not exist: with
\* fail_if_absent false it returns success with enabled false and no
\* selection; with fail_if_absent true it returns an error; in both cases it
\* reads nothing.
C21_MissingFile ==
    (grab.result # None /\ SelectionFileAbsent) =>
        /\ grab.reads = << >>
        /\ IF grab.params[1].fail_if_absent
           THEN /\ grab.result[1].status = "err"
                /\ grab.result[1].error.kind = "missing"
           ELSE /\ grab.result[1].status = "ok"
                /\ grab.result[1].value.enabled = FALSE
                /\ grab.result[1].value.selection = None
                /\ grab.result[1].value.path = SelectionFile

\* C21 witness: the default file is missing, the flag is true, and the call
\* has returned an error about that file
C21_Witness ==
    /\ grab.result # None
    /\ grab.params[1].path = None
    /\ grab.params[1].fail_if_absent
    /\ SelectionFile = DEFAULT_SELECTION_PATH
    /\ SelectionFileAbsent
    /\ grab.result[1].status = "err"
    /\ grab.result[1].error = [kind |-> "missing", path |-> Some(DEFAULT_SELECTION_PATH)]

\* C22: a build outcome of NotFound never aborts the launch: after a build
\* that exits successfully, whether or not an event names the target, the
\* launch goes on to the port range check with no error, the check and the
\* spawning depend on the port and the count alone, and the LaunchResult is
\* made of the pids, log files, ports, config and target, not of the build
\* state.
C22_NotFoundGoesOn ==
    [][/\ (pc = "resolved" /\ cargo.status = "success") =>
              /\ pc' = "built"
              /\ build_state' \in {Some("NotFound"), Some("Fresh"), Some("Rebuilt")}
              /\ result' = NoResult
       /\ pc = "built" =>
              /\ validation' = Some(validate_port_range(config.port, config.instance_count))
              /\ pc' = IF validation'[1].ok THEN "spawning" ELSE "error"
       /\ (build_state # None /\ result'.status = "err") =>
              result'.error.message.fmt \notin {"Failed to run cargo build",
                                                "Cargo build failed"}
       /\ result'.status = "ok" =>
              result'.value = build_launch_result(all_pids, all_log_files, all_ports,
                                                  config, target[1]).value]_vars

\* C22 witness: two instances launched after a build that named no target
C22_Witness ==
    /\ pc = "done"
    /\ cargo.status = "success"
    /\ cargo.stdout = << >>
    /\ build_state = Some("NotFound")
    /\ result.status = "ok"
    /\ Len(result.value.instances) = 2

\* C23: the port range check never wraps: for every base_port and every
\* instance_count of 16 bits, validate_port_range rejects exactly when the
\* exact sum base_port + max(instance_count, 1) - 1 exceeds MAX_VALID_PORT.
C23_NeverWraps ==
    (validation # None /\ config.port \in 0..65535 /\ config.instance_count \in 0..65535) =>
        (~validation[1].ok <=>
            config.port + Max(config.instance_count, 1) - 1 > 65534)

\* C23 witness: 65535 instances from port 65535, whose exact highest port
\* 131069 is beyond 16 bits, have been rejected
C23_Witness ==
    /\ validation # None
    /\ config.port = 65535
    /\ config.instance_count = 65535
    /\ config.port + config.instance_count - 1 = 131069
    /\ ~validation[1].ok
    /\ validation[1].error.message.fmt = "Port range exceeds maximum valid port"

\* the ports are in strictly ascending order
Ascending(ports) == \A k \in 1..(Len(ports) - 1) : ports[k] < ports[k + 1]

\* C24: instances are spawned one after another in ascending port order: the
\* log setup of an instance begins only when every earlier instance has
\* returned its pid and no spawn is in progress, and each spawn adds one
\* process, on a port above those before it.
C24_OneAtATime ==
    [][/\ (log_files' # log_files \/ instance_config' # instance_config) =>
              /\ pc = "spawning"
              /\ Len(processes) = i
              /\ Len(all_pids) = i
       /\ processes' # processes =>
              /\ pc = "prepared"
              /\ processes' = Append(processes, processes'[Len(processes')])
              /\ all_pids' = Append(all_pids, processes'[Len(processes')].pid)
              /\ Len(processes) = i
              /\ i' = i + 1
              /\ pc' = "spawning"
       /\ Ascending(all_ports')
       /\ Ascending([k \in 1..Len(log_files') |-> log_files'[k].path.port])]_vars

\* C24 witness: the third instance is being spawned after the first two have
\* returned their pids
C24_Witness ==
    /\ pc = "prepared"
    /\ i = 2
    /\ Len(all_pids) = 2
    /\ Len(processes) = 2
    /\ all_ports = << 15702, 15703 >>
    /\ instance_config[1].port = 15704

\* the line setup_launch_logging appends to the log file of the target kind
ExtraLine ==
    IF config.target_type = "example"
    THEN Some([fmt |-> "Package: ", package_name |-> target[1].package_name])
    ELSE None

\* the three failures of the log setup
LogFailures == {"Failed to create log file", "Failed to append to log file",
                "Failed to open log file for redirect"}

\* C25: for each instance the log file is created, then the extra line
\* "Package: <package_name>" is appended (for an example; nothing for an
\* application), then the file is opened for redirection, then the process is
\* spawned; a failure of one of the first three steps returns an error and
\* the instance is not spawned.
C25_LogThenSpawn ==
    /\ \A k \in 1..Len(processes) :
         /\ log_files[k].path = processes[k].log
         /\ log_files[k].content = ExtraLine
         /\ log_files[k].opened
    /\ (pc = "prepared") =>
         /\ Len(log_files) = i + 1
         /\ log_files[i + 1].content = ExtraLine
         /\ log_files[i + 1].opened
         /\ Len(processes) = i
    /\ (result.status = "err" /\ result.error.context = "ToolCall"
           /\ result.error.message.fmt \in LogFailures) =>
         /\ pc = "error"
         /\ Len(processes) = i
         /\ \A k \in 1..Len(processes) : processes[k].log.port # config.port + i
         /\ CASE result.error.message.fmt = "Failed to create log file" ->
                   Len(log_files) = i
              [] result.error.message.fmt = "Failed to append to log file" ->
                   /\ config.target_type = "example"
                   /\ Len(log_files) = i + 1
                   /\ log_files[i + 1].content = None
                   /\ ~log_files[i + 1].opened
              [] OTHER ->
                   /\ Len(log_files) = i + 1
                   /\ log_files[i + 1].content = ExtraLine
                   /\ ~log_files[i + 1].opened

\* C25 witness: the package line of the second instance of an example could
\* not be appended; the first instance runs, the second was not spawned
C25_Witness ==
    /\ pc = "error"
    /\ config.target_type = "example"
    /\ result.status = "err"
    /\ result.error.context = "ToolCall"
    /\ result.error.message.fmt = "Failed to append to log file"
    /\ i = 1
    /\ Len(processes) = 1
    /\ Len(log_files) = 2
    /\ log_files[1].content = Some([fmt |-> "Package: ", package_name |-> "pkg"])
    /\ log_files[2].content = None

\* the list joined with commas, built from its end
RECURSIVE CommaJoined(_)
CommaJoined(list) ==
    IF list = << >> THEN ""
    ELSE IF Len(list) = 1 THEN list[1]
    ELSE CommaJoined(SubSeq(list, 1, Len(list) - 1)) \o "," \o list[Len(list)]

\* where the argument occurs in the arguments
Positions(args, arg) == {k \in 1..Len(args) : args[k] = arg}

\* the arguments have "--features <list joined>" once when the configured
\* list is not empty and not at all otherwise, and "--release" exactly for
\* the profile release
FeaturesAndRelease(args) ==
    /\ IF config.features # None /\ config.features[1] # << >>
       THEN \E k \in 1..(Len(args) - 1) :
                /\ Positions(args, "--features") = {k}
                /\ args[k + 1] = CommaJoined(config.features[1])
       ELSE Positions(args, "--features") = {}
    /\ Positions(args, "--release") # {} <=> config.profile = "release"

\* C26: the build command and the example run command add
\* "--features <comma-joined list>" exactly when a non-empty feature list is
\* given and "--release" exactly when the profile equals "release"; the build
\* command always ends with "--message-format=json"; an absent or empty
\* feature list adds no features argument.
C26_CommandArguments ==
    /\ build_cmd # None =>
         /\ FeaturesAndRelease(build_cmd[1].args)
         /\ build_cmd[1].args[1] = "build"
         /\ build_cmd[1].args[Len(build_cmd[1].args)] = "--message-format=json"
    /\ (prepared # None /\ config.target_type = "example") =>
         /\ FeaturesAndRelease(prepared[1].cmd.args)
         /\ SubSeq(prepared[1].cmd.args, 1, 3) = << "run", "--example", config.target_name >>
    /\ \A k \in 1..Len(processes) :
         config.target_type = "example" => FeaturesAndRelease(processes[k].cmd.args)

\* C26 witness: an example built and run in release with the features f and g
C26_Witness ==
    /\ config.target_type = "example"
    /\ config.features = Some(<< "f", "g" >>)
    /\ build_cmd # None
    /\ build_cmd[1].args = << "build", "--example", "demo", "--features", "f,g",
                              "--release", "--message-format=json" >>
    /\ Len(processes) = 1
    /\ processes[1].cmd.args = << "run", "--example", "demo", "--features", "f,g",
                                  "--release" >>

\* the entities that were created with a PendingScreenshot
Delayed == {k \in 1..Len(world.entities) : world.entities[k].delay # None}

\* C27: a PendingScreenshot created with frames_remaining = n goes down by
\* one in each of the next n runs of process_pending_screenshots without a
\* capture, becomes a capture (PendingScreenshot removed, Screenshot
\* inserted) in run n + 1, and is captured once; frames_remaining is never
\* below zero.
C27_DelayedCapture ==
    \A k \in Delayed :
        LET e == world.entities[k]
            n == e.delay[1]
        IN  IF e.age <= n
            THEN /\ e.pending # None
                 /\ e.pending[1].frames_remaining = n - e.age
                 /\ e.pending[1].frames_remaining >= 0
                 /\ ~e.screenshot
                 /\ e.captures = 0
            ELSE /\ e.pending = None
                 /\ e.screenshot
                 /\ e.captures = 1
                 /\ e.captured_at = Some(n + 1)

\* C27 witness: a request with a delay of three frames has been captured in
\* its fourth run and has been through a fifth
C27_Witness ==
    \E k \in Delayed :
        /\ world.entities[k].delay = Some(3)
        /\ world.entities[k].age = 5
        /\ world.entities[k].pending = None
        /\ world.entities[k].captures = 1
        /\ world.entities[k].captured_at = Some(4)

\* the number of spawn attempts made so far: the spawns that returned a pid,
\* and the one that failed
SpawnAttempts ==
    Len(processes)
    + (IF result.status = "err" /\ result.error.context = "ProcessManagement"
          /\ result.error.message.fmt = "Failed to launch process"
       THEN 1 ELSE 0)

\* C28: launch_target always ends with a LaunchResult or an error when every
\* external call returns: where no step is left the call has returned one of
\* the two, the spawn loop has made at most instance_count iterations and at
\* most instance_count spawn attempts, and nothing was tried twice.
C28_Terminates ==
    /\ ~ENABLED Next => result.status \in {"ok", "err"}
    /\ i <= config.instance_count
    /\ Len(log_files) <= config.instance_count
    /\ SpawnAttempts <= config.instance_count
    /\ builds <= 1
    /\ \A j, k \in 1..Len(log_files) :
         log_files[j].path = log_files[k].path => j = k

\* C29: parse_build_output decides on the first line, in output order, that
\* is a valid structured event whose target.name is the requested name: the
\* outcome is the outcome of that line alone, whatever later events say and
\* whatever lines that are no events or name another target stand before or
\* after it; without such a line the outcome is NotFound.
C29_FirstEventDecides ==
    build_state # None =>
        LET events == EventsNaming(config.target_name)
        IN  IF events = {}
            THEN build_state[1] = "NotFound"
            ELSE LET first == CHOOSE k \in events : \A m \in events : k <= m
                 IN  /\ build_state[1] =
                            parse_build_output(<< cargo.stdout[first] >>, config.target_name)
                     /\ build_state[1] # "NotFound"
                     /\ \A k \in 1..(first - 1) :
                            parse_build_output(<< cargo.stdout[k] >>, config.target_name)
                                = "NotFound"

\* C29 witness: two events name the target, the first not fresh and the
\* second fresh; the outcome is Rebuilt
C29_Witness ==
    /\ build_state = Some("Rebuilt")
    /\ Len(cargo.stdout) = 2
    /\ EventsNaming(config.target_name) = {1, 2}
    /\ cargo.stdout[1].fresh = Some([t |-> "bool", v |-> "false"])
    /\ cargo.stdout[2].fresh = Some([t |-> "bool", v |-> "true"])

\* launch_target is at, or past, the call of build_launch_result
AtAggregation ==
    \/ pc = "spawning" /\ i >= config.instance_count
    \/ pc \in {"done", "panicked"}

\* C30: whenever launch_target reaches the result aggregation the list of
\* allocated ports is not empty, so the first and last port of the summary
\* message are defined; an instance_count of 0 never passes the port range
\* check and the spawn loop into build_launch_result with empty lists.
C30_PortsNonEmpty ==
    /\ AtAggregation => all_ports # << >>
    /\ pc # "panicked"
    /\ config.instance_count = 0 => ~(validation # None /\ validation[1].ok)

=============================================================================
